---- MODULE Spec2Model ----
(***************************************************************************)
(* A model of vjsonschema: the builder's registry of named schemas         *)
(* (builder.go), the hoisting of definitions (builder.addSchema), the      *)
(* completeness check and the per-target dependency traversal of           *)
(* builder.Compile / addSchemasCompile, and the reference rewriting        *)
(* (utils.go).  The schema engine (gojsonschema) is an external            *)
(* collaborator: it is modelled only as a verdict on a body.               *)
(***************************************************************************)
EXTENDS Naturals, Integers, Sequences, FiniteSets, TLC

VARIABLES
    schemas,       \* builder.schemas: name -> registeredSchema
    pc,            \* position of the running Compile() call, "idle" outside it
    targetsLeft,   \* names the outer `range v.schemas` of Compile has not visited
    target,        \* the name being compiled
    refsLeft,      \* references of the target that `range s.requiredReferences` has not visited
    stack,         \* call stack of addSchemasCompile: frames [name, left]
    schemasAdded,  \* the map schemasAdded of the current target
    loader,        \* the current target's SchemaLoader: locator -> body and number of AddSchema calls
    skipped,       \* history: names the current traversal met while marked false
    compiled,      \* the local map `schemas` of Compile: name -> compiled schema
    ret,           \* what the last finished call returned
    failedBefore,  \* history: a Compile() of this builder failed for missing references
    held           \* a Validator the caller got from an earlier Compile() and kept

vars == <<schemas, pc, targetsLeft, target, refsLeft, stack, schemasAdded,
          loader, skipped, compiled, ret, failedBefore, held>>

(***************************************************************************)
(* Bounds of the model.                                                    *)
(***************************************************************************)
\* the largest number of symbolic references one input body carries
MaxRefs == 2
\* the caller keeps a Validator of a registry of at most this many names
MaxHeldNames == 1

\* names AddSchema is called with
RootNames == {"A", "B"}
\* keys of `definitions` objects
DefKeys == {"K", "M"}
\* names a symbolic `$ref` may hold
RefNames == {"A", "B", "K"}
\* values of canonical `$ref` members: no braces around them
CanonicalRefs == {"#"}
\* every name, in the byte order json.Marshal sorts object keys in
SortedNames == <<"#", "A", "B", "K", "M">>

EmptyMap == [x \in {} |-> x]

(***************************************************************************)
(* JSON values.  A document is an object                                   *)
(*   {"type": t, "properties": {n: {"$ref": "{n}"}, ...}, "definitions": d}*)
(* and `definitions` is absent, a non-object, or an object whose values    *)
(* are documents or non-objects.  A member of refs that is in              *)
(* CanonicalRefs stands for {"$ref": "n"}, a reference without braces.     *)
(***************************************************************************)
NoDefs == [kind |-> "absent", m |-> EmptyMap]
NonObjectDefs == [kind |-> "nonobject", m |-> EmptyMap]
ObjectDefs(m) == [kind |-> "object", m |-> m]

Leaf(t, rs) == [type |-> t, refs |-> rs, defs |-> NoDefs]
\* a definition value that is not an object (a number, a string)
NonObjectValue == [obj |-> FALSE, doc |-> Leaf("string", {})]
ObjectValue(d) == [obj |-> TRUE, doc |-> d]
\* the nil map json.Unmarshal leaves for the text `null`; no object of the model
\* has an empty "type"
NilMap == [type |-> "", refs |-> {}, defs |-> NoDefs]

RefSets == {rs \in SUBSET RefNames : Cardinality(rs) <= MaxRefs}
\* bodies of innermost definitions
InnerDocs == {Leaf("string", {})}
\* bodies of definitions: leaves, or one more level of definitions under "M"
DefDocs ==
    {Leaf("string", rs) : rs \in {{}, {"A"}}}
    \cup {[type |-> "string", refs |-> {},
           defs |-> ObjectDefs([k \in {"M"} |-> ObjectValue(d)])] : d \in InnerDocs}
    \cup {[type |-> "string", refs |-> {},
           defs |-> ObjectDefs([k \in {"K"} |-> ObjectValue(Leaf("string", {}))])]}
DefValues == {NonObjectValue} \cup {ObjectValue(d) : d \in DefDocs}
\* the `definitions` members of the documents AddSchema is given
DefsInputs ==
    {NoDefs, NonObjectDefs}
    \cup {ObjectDefs([k \in {"K"} |-> v]) : v \in DefValues}
    \cup {ObjectDefs([k \in DefKeys |-> IF k = "K" THEN v
                                        ELSE ObjectValue(Leaf("string", {}))]) :
              v \in {NonObjectValue, ObjectValue(Leaf("string", {}))}}
\* documents without definitions, of type "string" or of type "bad", which the
\* engine rejects; a body the engine rejects carries at most one reference
LeafDocs ==
    {Leaf("string", rs) : rs \in RefSets}
    \cup {Leaf("bad", rs) : rs \in {r \in RefSets : Cardinality(r) <= 1}}
\* documents with definitions keep one parent body
Docs ==
    LeafDocs
    \cup {[type |-> "string", refs |-> {"K"}, defs |-> d] : d \in DefsInputs \ {NoDefs}}

(***************************************************************************)
(* Bytes.  A body is a sequence of tokens: punctuation, white space, a     *)
(* string literal "s", a string literal "{s}" (a braced one) and a literal  *)
(* that is no string (null, a number).                                     *)
(***************************************************************************)
Punct(c) == [k |-> "punct", v |-> c]
Lit(s) == [k |-> "lit", v |-> s]
Ws == [k |-> "ws", v |-> " "]
Str(s) == [k |-> "str", v |-> s]
Braced(s) == [k |-> "braced", v |-> s]

\* the members of S in sorted order
SortSet(S) == SelectSeq(SortedNames, LAMBDA n : n \in S)

\* the string a `$ref` member holds: "{n}" for a symbolic reference
RefValue(n) == IF n \in CanonicalRefs THEN Str(n) ELSE Braced(n)

\* "n":{"$ref":"{n}"} for each name of ns, separated by commas
RECURSIVE PropTokens(_)
PropTokens(ns) ==
    IF ns = <<>> THEN <<>>
    ELSE <<Str(Head(ns)), Punct(":"), Punct("{"), Str("$ref"), Punct(":"),
           RefValue(Head(ns)), Punct("}")>>
         \o (IF Len(ns) > 1 THEN <<Punct(",")>> ELSE <<>>)
         \o PropTokens(Tail(ns))

\* json.Marshal of a map: keys sorted ("definitions", "properties", "type"), no
\* white space; `null` for the nil map
RECURSIVE Marshal(_)
RECURSIVE DefTokens(_, _)
\* "k":<value> for each key of ks in the definitions object m
DefTokens(m, ks) ==
    IF ks = <<>> THEN <<>>
    ELSE <<Str(Head(ks)), Punct(":")>>
         \o (IF m[Head(ks)].obj THEN Marshal(m[Head(ks)].doc) ELSE <<Lit("5")>>)
         \o (IF Len(ks) > 1 THEN <<Punct(",")>> ELSE <<>>)
         \o DefTokens(m, Tail(ks))

Marshal(doc) ==
    IF doc = NilMap THEN <<Lit("null")>>
    ELSE <<Punct("{")>>
         \o (CASE doc.defs.kind = "absent" -> <<>>
               [] doc.defs.kind = "nonobject" ->
                     <<Str("definitions"), Punct(":"), Lit("5"), Punct(",")>>
               [] OTHER ->
                     <<Str("definitions"), Punct(":"), Punct("{")>>
                     \o DefTokens(doc.defs.m, SortSet(DOMAIN doc.defs.m))
                     \o <<Punct("}"), Punct(",")>>)
         \o (IF doc.refs = {} THEN <<>>
             ELSE <<Str("properties"), Punct(":"), Punct("{")>>
                  \o PropTokens(SortSet(doc.refs)) \o <<Punct("}"), Punct(",")>>)
         \o <<Str("type"), Punct(":"), Str(doc.type), Punct("}")>>

\* the first position at or after i that holds no white space
RECURSIVE SkipWs(_, _)
SkipWs(b, i) == IF i <= Len(b) /\ b[i].k = "ws" THEN SkipWs(b, i + 1) ELSE i

\* a pattern that takes every string value of a `$ref` member, braces or not
MatchEndAnyString(b, i) ==
    IF b[i] # Str("$ref") THEN 0
    ELSE LET c == SkipWs(b, i + 1)
         IN IF c > Len(b) \/ b[c] # Punct(":") THEN 0
            ELSE LET e == SkipWs(b, c + 1)
                 IN IF e <= Len(b) /\ b[e].k \in {"braced", "str"} THEN e ELSE 0

\* refRegex `"\$ref"\s*:\s*"{([^"]*?)}"` matched at position i: the position of
\* the braced literal that ends the match, 0 when there is no match at i
MatchEnd(b, i) ==
    IF b[i] # Str("$ref") THEN 0
    ELSE LET c == SkipWs(b, i + 1)
         IN IF c > Len(b) \/ b[c] # Punct(":") THEN 0
            ELSE LET e == SkipWs(b, c + 1)
                 IN IF e <= Len(b) /\ b[e].k = "braced" THEN e ELSE 0

\* refRegex.FindAllSubmatch: the first submatch of every match
FindAllSubmatch(b) ==
    {b[MatchEnd(b, i)].v : i \in {j \in 1..Len(b) : MatchEnd(b, j) > 0}}

\* SchemaRefReplace: every match becomes "$ref":"<replaceFunc(ref)>"; replaceFunc
\* is a function on strings
SchemaRefReplace(b, replaceFunc) ==
    LET rep[i \in 1..(Len(b) + 1)] ==
            IF i > Len(b) THEN <<>>
            ELSE IF MatchEnd(b, i) > 0
                 THEN <<Str("$ref"), Punct(":"), Str(replaceFunc[b[MatchEnd(b, i)].v])>>
                      \o rep[MatchEnd(b, i) + 1]
                 ELSE <<b[i]>> \o rep[i + 1]
    IN rep[1]

\* a locator that leaves out the name
refToFakeExternalPrefixOnly(ref) == "file://--jsonschema--/"

refToFakeExternal(ref) == "file://--jsonschema--/" \o ref
\* refToFakeExternal as the function value handed to SchemaRefReplace
refToFakeExternalFunc == [ref \in STRING |-> refToFakeExternal(ref)]

(***************************************************************************)
(* Errors and return values.                                               *)
(***************************************************************************)
NoErr == [kind |-> "nil", name |-> "", wraps |-> <<>>, missing |-> {}]
Err(kind, name) == [kind |-> kind, name |-> name, wraps |-> <<>>, missing |-> {}]
\* errors.WithMessage(err, "...: " + name)
WithMessage(err, name) == [err EXCEPT !.wraps = <<name>> \o @]
NilValidator == [nil |-> TRUE, schemas |-> EmptyMap]

(***************************************************************************)
(* builder.addSchema.  The result is the set of outcomes the Go map        *)
(* iteration order allows, each [schemas, err].                            *)
(***************************************************************************)
\* the name a definition is registered under
DefName(name, defKey) == defKey

\* a registrar without the collision check: a second registration overwrites
CollidesNever(reg, name) == FALSE

\* `if _, ok := v.schemas[name]; ok`
Collides(reg, name) == name \in DOMAIN reg

\* a registrar that stores the body with its definitions
KeepDefinitions(doc) == doc

\* delete(schema, "definitions"), a no-op on the nil map
DeleteDefinitions(doc) == [doc EXCEPT !.defs = NoDefs]

\* a registrar that extracts the references before it deletes the definitions
RegisteredSchemaRefsFirst(doc) ==
    [source |-> Marshal(DeleteDefinitions(doc)),
     requiredReferences |-> FindAllSubmatch(Marshal(doc))]

\* b and refs of addSchema: the body without definitions and its symbolic references
RegisteredSchema(doc) ==
    LET b == Marshal(DeleteDefinitions(doc))
    IN [source |-> b, requiredReferences |-> FindAllSubmatch(b)]

\* a registrar that takes every definition value for an object
IsObjectAlways(def) == TRUE

\* ok of `defMap, ok := def.(map[string]interface{})`
IsObject(def) == def.obj

RECURSIVE addSchema(_, _, _)
RECURSIVE rangeDefs(_, _, _, _)
\* the loop over defsMap: `left` are the keys not yet visited
rangeDefs(reg, name, m, left) ==
    IF left = {} THEN {[schemas |-> reg, err |-> NoErr]}
    ELSE UNION {
        LET outs == IF ~IsObject(m[defKey])
                    THEN {[schemas |-> reg, err |-> Err("definition", defKey)]}
                    ELSE {[o EXCEPT !.err = IF o.err.kind = "nil" THEN o.err
                                            ELSE WithMessage(o.err, DefName(name, defKey))] :
                            o \in addSchema(reg, DefName(name, defKey), m[defKey].doc)}
        IN UNION {IF o.err.kind # "nil" THEN {o}
                  ELSE rangeDefs(o.schemas, name, m, left \ {defKey}) : o \in outs}
        : defKey \in left}

addSchema(reg, name, doc) ==
    LET afterDefs ==
            CASE doc.defs.kind = "absent" -> {[schemas |-> reg, err |-> NoErr]}
              [] doc.defs.kind = "nonobject" ->
                    {[schemas |-> reg, err |-> Err("definitions", "")]}
              [] OTHER -> rangeDefs(reg, name, doc.defs.m, DOMAIN doc.defs.m)
        store(o) ==
            IF o.err.kind # "nil" THEN o
            ELSE IF Collides(o.schemas, name)
                 THEN [schemas |-> o.schemas, err |-> Err("collision", name)]
                 ELSE [schemas |-> [n \in DOMAIN o.schemas \cup {name} |->
                                        IF n = name THEN RegisteredSchema(doc)
                                        ELSE o.schemas[n]],
                       err |-> NoErr]
    IN {store(o) : o \in afterDefs}

(***************************************************************************)
(* The state after NewBuilder().                                           *)
(***************************************************************************)
\* shared: the keys of a returned map whose byte slice shares its array with
\* the registry entry of that name
Ret(op, err, validator, out) ==
    [op |-> op, err |-> err, validator |-> validator, out |-> out, shared |-> {}]
\* no call has returned yet, or a Compile() call is running
Pending == Ret("none", NoErr, NilValidator, EmptyMap)

Init ==
    /\ schemas = EmptyMap
    /\ pc = "idle"
    /\ targetsLeft = {}
    /\ target = ""
    /\ refsLeft = {}
    /\ stack = <<>>
    /\ schemasAdded = EmptyMap
    /\ loader = EmptyMap
    /\ skipped = {}
    /\ compiled = EmptyMap
    /\ ret = Pending
    /\ failedBefore = FALSE
    /\ held = NilValidator

compileLocals == <<pc, targetsLeft, target, refsLeft, stack, schemasAdded,
                   loader, skipped, compiled>>

(***************************************************************************)
(* builder.AddSchema(name, schema).  `form` is the dynamic type of the     *)
(* argument and `j` the JSON text it carries (or marshals to).             *)
(***************************************************************************)
Forms == {"RawMessage", "bytes", "string", "value"}
NotAnObject == [kind |-> "other", doc |-> Leaf("string", {})]
JsonInputs == {[kind |-> "object", doc |-> d] : d \in Docs} \cup {NotAnObject}
\* every text as []byte, and two texts in each of the other forms
Inputs ==
    ({"bytes"} \X JsonInputs)
    \cup ((Forms \ {"bytes"}) \X {NotAnObject, [kind |-> "object", doc |-> Leaf("string", {})]})

\* the bytes b that AddSchema hands to json.Unmarshal: nil for a json.RawMessage
\* (no branch assigns b), the text otherwise
UnmarshalInput(form, j) ==
    IF form = "RawMessage" THEN [kind |-> "empty", doc |-> j.doc] ELSE j

\* json.Unmarshal(b, &m) for a map m: an object fills m, `null` leaves m nil
\* without an error, every other text is an error
Unmarshal(b) ==
    CASE b.kind = "object" -> [ok |-> TRUE, m |-> b.doc]
      [] b.kind = "null" -> [ok |-> TRUE, m |-> NilMap]
      [] OTHER -> [ok |-> FALSE, m |-> NilMap]

\* the outcomes of AddSchema on registry reg
AddSchemaOutcomes(reg, name, form, j) ==
    LET u == Unmarshal(UnmarshalInput(form, j))
    IN IF ~u.ok
       THEN {[schemas |-> reg, err |-> Err("unmarshal", "")]}
       ELSE addSchema(reg, name, u.m)

AddSchema(name, form, j) ==
    /\ pc = "idle"
    /\ \E o \in AddSchemaOutcomes(schemas, name, form, j) :
          /\ schemas' = o.schemas
          /\ ret' = Ret("AddSchema", o.err, NilValidator, EmptyMap)
    /\ UNCHANGED <<compileLocals, failedBefore, held>>

(***************************************************************************)
(* builder.GetSchemas().                                                   *)
(***************************************************************************)
\* out[name] = s.source: the slice header is copied, the bytes are not
GetSchemasResult(reg) == [name \in DOMAIN reg |-> reg[name].source]

GetSchemas ==
    /\ pc = "idle"
    /\ ret' = [Ret("GetSchemas", NoErr, NilValidator, GetSchemasResult(schemas))
                   EXCEPT !.shared = DOMAIN schemas]
    /\ UNCHANGED <<schemas, compileLocals, failedBefore, held>>

(***************************************************************************)
(* The schema engine.  Its verdict on a document depends on the document   *)
(* alone: it rejects a body that is no object and one whose "type" is "bad".*)
(***************************************************************************)
EngineRejects(b) ==
    \/ b = <<>>
    \/ b[1] # Punct("{")
    \/ \E i \in 1..Len(b) :
           /\ i + 2 <= Len(b)
           /\ b[i] = Str("type") /\ b[i + 1] = Punct(":") /\ b[i + 2] = Str("bad")

\* the body handed to the engine for the schema registered as name
EngineBody(reg, name) ==
    SchemaRefReplace(IF name \in DOMAIN reg THEN reg[name].source ELSE <<>>,
                     refToFakeExternalFunc)

\* schemas[name].requiredReferences, the zero value for a name not registered
RequiredReferences(reg, name) ==
    IF name \in DOMAIN reg THEN reg[name].requiredReferences ELSE {}

(***************************************************************************)
(* builder.Compile(), one step per loop iteration and per call or return   *)
(* of addSchemasCompile.  No other operation runs while pc # "idle".       *)
(***************************************************************************)
\* a completeness check that looks up the referring schema, not the reference
MissingRefsOfReferrer(reg) ==
    UNION {{n \o "(" \o name \o ")" :
               n \in {r \in reg[name].requiredReferences : name \notin DOMAIN reg}} :
           name \in DOMAIN reg}

\* a completeness check that stops at the first unresolved reference
MissingRefsFirstOnly(reg) ==
    LET all == UNION {{n \o "(" \o name \o ")" :
                          n \in reg[name].requiredReferences \ DOMAIN reg} :
                      name \in DOMAIN reg}
    IN IF all = {} THEN {} ELSE {CHOOSE m \in all : TRUE}

\* the keys of missingRefs: n+"("+name+")" for every unresolved reference
MissingRefs(reg) ==
    UNION {{n \o "(" \o name \o ")" : n \in reg[name].requiredReferences \ DOMAIN reg} :
           name \in DOMAIN reg}

\* an error return that hands out the schemas compiled so far
FailedValidatorPartial(partial) == [nil |-> FALSE, schemas |-> partial]

\* the Validator of `return nil, err`; partial is the map compiled so far
FailedValidator(partial) == NilValidator

\* Compile returns: its locals are gone
CompileReturns(err, validator) ==
    /\ ret' = Ret("Compile", err, validator, EmptyMap)
    /\ pc' = "idle"
    /\ targetsLeft' = {}
    /\ target' = ""
    /\ refsLeft' = {}
    /\ stack' = <<>>
    /\ schemasAdded' = EmptyMap
    /\ loader' = EmptyMap
    /\ skipped' = {}
    /\ compiled' = EmptyMap

\* a completeness check that keeps failing once it has failed
CompileCheckSticky ==
    /\ pc = "idle"
    /\ IF MissingRefs(schemas) # {} \/ failedBefore
       THEN /\ CompileReturns([Err("missing", "") EXCEPT !.missing = MissingRefs(schemas)],
                              FailedValidator(compiled))
            /\ failedBefore' = TRUE
       ELSE /\ pc' = "targets"
            /\ targetsLeft' = DOMAIN schemas
            /\ ret' = Pending
            /\ UNCHANGED <<target, refsLeft, stack, schemasAdded, loader, skipped,
                           compiled, failedBefore>>
    /\ UNCHANGED <<schemas, held>>

\* a Compile() that starts the loop over the targets without the check
CompileCheckSkipped ==
    /\ pc = "idle"
    /\ pc' = "targets"
    /\ targetsLeft' = DOMAIN schemas
    /\ ret' = Pending
    /\ UNCHANGED <<target, refsLeft, stack, schemasAdded, loader, skipped,
                   compiled, failedBefore>>
    /\ UNCHANGED <<schemas, held>>

\* the completeness check; on success the loop over the targets starts
CompileCheck ==
    /\ pc = "idle"
    /\ IF MissingRefs(schemas) # {}
       THEN /\ CompileReturns([Err("missing", "") EXCEPT !.missing = MissingRefs(schemas)],
                              FailedValidator(compiled))
            /\ failedBefore' = TRUE
       ELSE /\ pc' = "targets"
            /\ targetsLeft' = DOMAIN schemas
            /\ ret' = Pending
            /\ UNCHANGED <<target, refsLeft, stack, schemasAdded, loader, skipped,
                           compiled, failedBefore>>
    /\ UNCHANGED <<schemas, held>>

\* a loop that hands every other registered schema to the target's traversal
NextTargetAllNames ==
    /\ pc = "targets"
    /\ \E name \in targetsLeft :
          /\ target' = name
          /\ schemasAdded' = [n \in {name} |-> FALSE]
          /\ refsLeft' = DOMAIN schemas \ {name}
    /\ loader' = EmptyMap
    /\ skipped' = {}
    /\ stack' = <<>>
    /\ pc' = "refs"
    /\ UNCHANGED <<schemas, targetsLeft, compiled, ret, failedBefore, held>>

\* a loop whose targets share one loader and one schemasAdded
NextTargetSharedLoader ==
    /\ pc = "targets"
    /\ \E name \in targetsLeft :
          /\ target' = name
          /\ schemasAdded' = [n \in DOMAIN schemasAdded \cup {name} |->
                                  IF n = name THEN FALSE ELSE schemasAdded[n]]
          /\ refsLeft' = RequiredReferences(schemas, name)
    /\ UNCHANGED loader
    /\ skipped' = {}
    /\ stack' = <<>>
    /\ pc' = "refs"
    /\ UNCHANGED <<schemas, targetsLeft, compiled, ret, failedBefore, held>>

\* `for name, s := range v.schemas`: a fresh loader and a fresh schemasAdded
NextTarget ==
    /\ pc = "targets"
    /\ \E name \in targetsLeft :
          /\ target' = name
          /\ schemasAdded' = [n \in {name} |-> FALSE]
          /\ refsLeft' = RequiredReferences(schemas, name)
    /\ loader' = EmptyMap
    /\ skipped' = {}
    /\ stack' = <<>>
    /\ pc' = "refs"
    /\ UNCHANGED <<schemas, targetsLeft, compiled, ret, failedBefore, held>>

\* a loop that calls addSchemasCompile only for names without a mark
CallTopUnmarkedOnly ==
    /\ pc = "refs" /\ stack = <<>>
    /\ \E n \in refsLeft :
          /\ refsLeft' = refsLeft \ {n}
          /\ stack' = IF n \in DOMAIN schemasAdded THEN <<>>
                       ELSE <<[name |-> n, left |-> RequiredReferences(schemas, n)]>>
    /\ UNCHANGED <<schemas, pc, targetsLeft, target, schemasAdded, loader, skipped,
                   compiled, ret, failedBefore, held>>

\* `for n := range s.requiredReferences`: the call addSchemasCompile(..., n)
CallTop ==
    /\ pc = "refs" /\ stack = <<>>
    /\ \E n \in refsLeft :
          /\ refsLeft' = refsLeft \ {n}
          /\ stack' = <<[name |-> n, left |-> RequiredReferences(schemas, n)]>>
    /\ UNCHANGED <<schemas, pc, targetsLeft, target, schemasAdded, loader, skipped,
                   compiled, ret, failedBefore, held>>

\* a traversal that never finds a name marked true
AddedNever(name) == FALSE

\* (*schemasAdded)[name], false for a missing key
Added(name) == name \in DOMAIN schemasAdded /\ schemasAdded[name]

\* a traversal that takes only registered (true) names as visited
VisitedOnlyDone(added, reqRef) == reqRef \in DOMAIN added /\ added[reqRef]

\* a traversal that takes every name as visited
VisitedAlways(added, reqRef) == TRUE

\* `_, ok := (*schemasAdded)[reqRef]`
Visited(added, reqRef) == reqRef \in DOMAIN added

\* one iteration of `for reqRef := range s.requiredReferences` in the top frame
VisitRef ==
    /\ pc = "refs" /\ stack # <<>>
    /\ LET top == stack[Len(stack)]
       IN \E reqRef \in top.left :
            LET rest == [stack EXCEPT ![Len(stack)].left = top.left \ {reqRef}]
            IN IF ~Visited(schemasAdded, reqRef)
               THEN /\ schemasAdded' = [n \in DOMAIN schemasAdded \cup {reqRef} |->
                                           IF n = reqRef THEN FALSE ELSE schemasAdded[n]]
                    /\ stack' = Append(rest, [name |-> reqRef,
                                              left |-> RequiredReferences(schemas, reqRef)])
                    /\ UNCHANGED skipped
               ELSE /\ stack' = rest
                    /\ skipped' = IF Added(reqRef) THEN skipped
                                  ELSE skipped \cup {reqRef}
                    /\ UNCHANGED schemasAdded
    /\ UNCHANGED <<schemas, pc, targetsLeft, target, refsLeft, loader, compiled, ret,
                   failedBefore, held>>

\* how many times loader.AddSchema was called with the locator l
Loaded(l) == IF l \in DOMAIN loader THEN loader[l].times ELSE 0

\* the end of addSchemasCompile: register the schema unless it is marked true
Register ==
    /\ pc = "refs" /\ stack # <<>>
    /\ stack[Len(stack)].left = {}
    /\ \E name \in {stack[Len(stack)].name},
          body \in {EngineBody(schemas, stack[Len(stack)].name)} :
             IF Added(name)
             THEN /\ stack' = SubSeq(stack, 1, Len(stack) - 1)
                  /\ UNCHANGED <<pc, targetsLeft, target, refsLeft, schemasAdded, loader,
                                 skipped, compiled, ret>>
             ELSE IF EngineRejects(body)
                  THEN CompileReturns(WithMessage(Err("load", name), name),
                                      FailedValidator(compiled))
                  ELSE /\ schemasAdded' = [n \in DOMAIN schemasAdded \cup {name} |->
                                              IF n = name THEN TRUE ELSE schemasAdded[n]]
                       /\ loader' = [l \in DOMAIN loader \cup {refToFakeExternal(name)} |->
                                        IF l = refToFakeExternal(name)
                                        THEN [body |-> body, times |-> Loaded(l) + 1]
                                        ELSE loader[l]]
                       /\ stack' = SubSeq(stack, 1, Len(stack) - 1)
                       /\ UNCHANGED <<pc, targetsLeft, target, refsLeft, skipped,
                                      compiled, ret>>
    /\ UNCHANGED <<schemas, failedBefore, held>>

\* a loop that leaves out a target the engine rejects and goes on
CompileTargetSkipping ==
    /\ pc = "refs" /\ stack = <<>> /\ refsLeft = {}
    /\ \E body \in {EngineBody(schemas, target)} :
          /\ compiled' = IF EngineRejects(body) THEN compiled
                          ELSE [n \in DOMAIN compiled \cup {target} |->
                                   IF n = target THEN [body |-> body, pool |-> DOMAIN loader]
                                   ELSE compiled[n]]
          /\ targetsLeft' = targetsLeft \ {target}
          /\ pc' = "targets"
          /\ UNCHANGED <<target, refsLeft, stack, schemasAdded, loader, skipped, ret>>
    /\ UNCHANGED <<schemas, failedBefore, held>>

\* loader.Compile of the target's body once its references are visited
CompileTarget ==
    /\ pc = "refs" /\ stack = <<>> /\ refsLeft = {}
    /\ \E body \in {EngineBody(schemas, target)} :
          IF EngineRejects(body)
          THEN CompileReturns(WithMessage(Err("compile", target), target),
                              FailedValidator(compiled))
          ELSE /\ compiled' = [n \in DOMAIN compiled \cup {target} |->
                                  IF n = target THEN [body |-> body, pool |-> DOMAIN loader]
                                  ELSE compiled[n]]
               /\ targetsLeft' = targetsLeft \ {target}
               /\ pc' = "targets"
               /\ UNCHANGED <<target, refsLeft, stack, schemasAdded, loader, skipped, ret>>
    /\ UNCHANGED <<schemas, failedBefore, held>>

\* a successful Compile() that empties the builder
CompileDoneConsuming ==
    /\ pc = "targets" /\ targetsLeft = {}
    /\ CompileReturns(NoErr, [nil |-> FALSE, schemas |-> compiled])
    /\ schemas' = EmptyMap
    /\ UNCHANGED <<failedBefore, held>>

\* a successful Compile() that returns validators for the root names only
CompileDoneRootsOnly ==
    /\ pc = "targets" /\ targetsLeft = {}
    /\ CompileReturns(NoErr, [nil |-> FALSE,
                              schemas |-> [n \in DOMAIN compiled \cap RootNames |->
                                              compiled[n]]])
    /\ UNCHANGED <<schemas, failedBefore, held>>

\* a successful Compile() whose Validators all share one map of compiled schemas
CompileDoneShared ==
    /\ pc = "targets" /\ targetsLeft = {}
    /\ CompileReturns(NoErr, [nil |-> FALSE, schemas |-> compiled])
    /\ held' = IF held.nil THEN held ELSE [nil |-> FALSE, schemas |-> compiled]
    /\ UNCHANGED <<schemas, failedBefore>>

\* `return &validator{schemas: schemas}, nil`
CompileDone ==
    /\ pc = "targets" /\ targetsLeft = {}
    /\ CompileReturns(NoErr, [nil |-> FALSE, schemas |-> compiled])
    /\ UNCHANGED <<schemas, failedBefore, held>>

\* the steps of a Compile() call that has passed the completeness check
CompileStep ==
    NextTarget \/ CallTop \/ VisitRef \/ Register \/ CompileTarget \/ CompileDone
Compile == CompileCheck \/ CompileStep

Next ==
    \/ \E name \in RootNames, in \in Inputs : AddSchema(name, in[1], in[2])
    \/ GetSchemas
    \/ CompileCheck
    \/ NextTarget
    \/ CallTop
    \/ VisitRef
    \/ Register
    \/ CompileTarget
    \/ CompileDone

Spec == Init /\ [][Next]_vars

(***************************************************************************)
(* builder.AddFile.  A path is a sequence of elements: names, the          *)
(* separator "/" and extensions (an element that starts with a dot).       *)
(***************************************************************************)
Separator == "/"
Extensions == {".json", ".txt", ".JSON"}

\* filepath.Base: the elements after the last separator
Base(filePath) ==
    LET seps == {i \in 1..Len(filePath) : filePath[i] = Separator}
        last == IF seps = {} THEN 0 ELSE CHOOSE i \in seps : \A j \in seps : j <= i
    IN SubSeq(filePath, last + 1, Len(filePath))

\* filepath.Ext: the suffix of the last element from its last dot on
Ext(filePath) ==
    LET base == Base(filePath)
    IN IF base # <<>> /\ base[Len(base)] \in Extensions THEN base[Len(base)] ELSE ""

\* the elements of a path or of a name as one string
RECURSIVE Join(_)
Join(elems) == IF elems = <<>> THEN "" ELSE Head(elems) \o Join(Tail(elems))

\* a naming that keeps the extension
KeepExtension(base) == Join(base)

\* name[:len(name)-5] for a base name that ends in ".json"
TrimJson(base) == Join(SubSeq(base, 1, Len(base) - 1))

\* the files of the file system and their contents
Files ==
    [p \in {<<"d", "/", "B", ".json">>, <<"A", ".txt">>, <<"A", ".JSON">>, <<"d", "/", "A">>,
            <<"d", "/", "s", "/", "M", ".json">>} |->
        [kind |-> "object", doc |-> Leaf("string", {})]]

\* the outcomes of AddFile on registry reg
AddFileOutcomes(reg, prefix, filePath) ==
    IF Ext(filePath) # ".json"
    THEN {[schemas |-> reg, err |-> Err("ext", "")]}
    ELSE LET name == prefix \o TrimJson(Base(filePath))
         IN IF filePath \notin DOMAIN Files
            THEN {[schemas |-> reg, err |-> WithMessage(Err("read", ""), Join(filePath))]}
            ELSE {[o EXCEPT !.err = IF o.err.kind = "nil" THEN o.err
                                    ELSE WithMessage(o.err, Join(filePath))] :
                    o \in AddSchemaOutcomes(reg, name, "bytes", Files[filePath])}

AddFile(prefix, filePath) ==
    /\ pc = "idle"
    /\ \E o \in AddFileOutcomes(schemas, prefix, filePath) :
          /\ schemas' = o.schemas
          /\ ret' = Ret("AddFile", o.err, NilValidator, EmptyMap)
    /\ UNCHANGED <<compileLocals, failedBefore, held>>

(***************************************************************************)
(* builder.AddDir.  filepath.Walk calls the function for the root, then    *)
(* for every entry below it, directories and their entries included, in    *)
(* the lexical order of the names.                                         *)
(***************************************************************************)
\* the directories of the file system, and a directory that does not exist
Dirs == {<<"d">>, <<"d", "/", "s">>}
NoDir == <<"x">>

\* path lies below dir, at any depth
Below(dir, path) ==
    /\ Len(path) > Len(dir) + 1
    /\ SubSeq(path, 1, Len(dir)) = dir
    /\ path[Len(dir) + 1] = Separator

\* the files filepath.Walk(dir, ...) passes to the function, in its order; the
\* directories it passes have names without ".json" and the function skips them
Walk(dir) ==
    SelectSeq(<<<<"d", "/", "A">>, <<"d", "/", "B", ".json">>,
                <<"d", "/", "s", "/", "M", ".json">>>>,
              LAMBDA p : Below(dir, p))

\* strings.HasSuffix(info.Name(), ".json")
HasJsonSuffix(path) == Base(path) # <<>> /\ Base(path)[Len(Base(path))] = ".json"

\* the function of the walk applied to the paths left, until it returns an error
RECURSIVE walkFunc(_, _)
walkFunc(reg, paths) ==
    IF paths = <<>>
    THEN {[schemas |-> reg, err |-> NoErr]}
    ELSE IF ~HasJsonSuffix(Head(paths))
         THEN walkFunc(reg, Tail(paths))
         ELSE UNION {IF o.err.kind = "nil" THEN walkFunc(o.schemas, Tail(paths)) ELSE {o} :
                        o \in AddFileOutcomes(reg, "", Head(paths))}

\* the outcomes of AddDir on registry reg; crash: the function read the name
\* of a nil FileInfo, which Walk passes for a root it cannot stat
AddDirOutcomes(reg, dir) ==
    IF dir \notin Dirs
    THEN {[schemas |-> reg, err |-> NoErr, crash |-> TRUE]}
    ELSE {[schemas |-> o.schemas,
           err |-> IF o.err.kind = "nil" THEN o.err ELSE WithMessage(o.err, Join(dir)),
           crash |-> FALSE] : o \in walkFunc(reg, Walk(dir))}

AddDir(dir) ==
    /\ pc = "idle"
    /\ \E o \in AddDirOutcomes(schemas, dir) :
          /\ schemas' = o.schemas
          /\ ret' = Ret("AddDir", o.err, NilValidator, [dir |-> dir, crash |-> o.crash])
    /\ UNCHANGED <<compileLocals, failedBefore, held>>

(***************************************************************************)
(* validator.Validate, on the Validator the caller kept.                   *)
(***************************************************************************)
NilResult == [nil |-> TRUE, valid |-> FALSE]
\* the zero value of *gojsonschema.Schema
NilSchema == [body |-> <<>>, pool |-> {}]

\* schema.Validate of the engine: the verdict on an instance
EngineValidate(schema, instance) ==
    [result |-> [nil |-> FALSE, valid |-> instance = "conforming"], err |-> NoErr]

\* a lookup that finds every name
HasSchemaAlways(v, schemaName) == TRUE

\* ok of `schema, ok := v.schemas[schemaName]`
HasSchema(v, schemaName) == schemaName \in DOMAIN v.schemas

\* what Validate returns, whether it called the engine, and whether it
\* dereferenced a nil schema
ValidateOutcome(v, schemaName, instance) ==
    LET schema == IF schemaName \in DOMAIN v.schemas THEN v.schemas[schemaName]
                  ELSE NilSchema
    IN IF ~HasSchema(v, schemaName)
       THEN [result |-> NilResult, err |-> Err("unknown", schemaName),
             engine |-> FALSE, crash |-> FALSE]
       ELSE IF schema = NilSchema
            THEN [result |-> NilResult, err |-> NoErr, engine |-> TRUE, crash |-> TRUE]
            ELSE [result |-> EngineValidate(schema, instance).result,
                  err |-> EngineValidate(schema, instance).err,
                  engine |-> TRUE, crash |-> FALSE]

\* a Validate that drops the compiled schema it has used
ValidateConsuming(schemaName, instance) ==
    /\ pc = "idle"
    /\ ~held.nil
    /\ \E o \in {ValidateOutcome(held, schemaName, instance)} :
          ret' = Ret("Validate", o.err, NilValidator, o)
    /\ held' = [held EXCEPT !.schemas = [n \in DOMAIN held.schemas \ {schemaName} |->
                                             held.schemas[n]]]
    /\ UNCHANGED <<schemas, compileLocals, failedBefore>>

Validate(schemaName, instance) ==
    /\ pc = "idle"
    /\ ~held.nil
    /\ \E o \in {ValidateOutcome(held, schemaName, instance)} :
          ret' = Ret("Validate", o.err, NilValidator, o)
    /\ UNCHANGED <<schemas, compileLocals, failedBefore, held>>

\* the caller keeps the Validator a Compile() call has just returned
Hold ==
    /\ pc = "idle"
    /\ ret.op = "Compile" /\ ~ret.validator.nil
    /\ held.nil
    /\ Cardinality(DOMAIN ret.validator.schemas) <= MaxHeldNames
    /\ held' = ret.validator
    /\ UNCHANGED <<schemas, compileLocals, ret, failedBefore>>

(***************************************************************************)
(* A caller of the package: it registers schemas from memory and from      *)
(* files, compiles, keeps a Validator, validates against it and rewrites   *)
(* references with SchemaRefReplace.                                       *)
(***************************************************************************)
\* a document with the definitions m and the references rs
WithDefs(rs, m) == [type |-> "string", refs |-> rs, defs |-> ObjectDefs(m)]
\* texts that are JSON but no object, and a text that is no JSON
NonObjectTexts ==
    {[kind |-> k, doc |-> Leaf("string", {})] : k \in {"invalid", "string", "array", "number"}}
NullText == [kind |-> "null", doc |-> NilMap]
\* the documents the caller registers
CallerDocs ==
    {Leaf("string", {}), Leaf("string", {"#", "B"}),
     WithDefs({"K"}, [k \in {"K"} |-> ObjectValue(Leaf("string", {}))]),
     WithDefs({}, [k \in {"K", "M"} |-> IF k = "K" THEN ObjectValue(Leaf("string", {}))
                                        ELSE NonObjectValue]),
     WithDefs({}, [k \in {"K"} |->
                     ObjectValue([type |-> "string", refs |-> {}, defs |-> NonObjectDefs])]),
     WithDefs({}, [k \in {"K"} |->
                     ObjectValue(WithDefs({}, [m \in {"M"} |-> NonObjectValue]))]),
     [type |-> "string", refs |-> {}, defs |-> NonObjectDefs]}
CallerInputs ==
    ({"bytes"} \X ({[kind |-> "object", doc |-> d] : d \in CallerDocs}
                   \cup NonObjectTexts \cup {NullText}))
    \cup ({"string", "value"} \X {[kind |-> "string", doc |-> Leaf("string", {})], NullText})
\* the paths and the prefixes the caller hands to AddFile
Paths ==
    {<<"A", ".json">>, <<"d", "/", "B", ".json">>, <<"A", ".txt">>, <<"A", ".JSON">>,
     <<"d", "/", "A">>, <<"M", ".json">>}
Prefixes == {"", "P"}
\* the names and the instances the caller hands to Validate
ValidateNames == {"A", "B", "K", "Z"}
Instances == {"conforming", "violating"}
\* the bytes the caller hands to SchemaRefReplace: a `$ref` member without white
\* space, with white space around its colon, with white space elsewhere, and a
\* canonical one
RefMember(ws, value) ==
    <<Punct("{"), Str("$ref")>> \o ws \o <<Punct(":")>> \o ws \o <<value, Punct("}")>>
ReplaceInputs ==
    {RefMember(<<>>, Braced("A")),
     RefMember(<<Ws>>, Braced("A")),
     RefMember(<<>>, Str("#")),
     RefMember(<<Ws>>, Str("#")),
     <<Punct("{"), Ws, Str("a"), Punct(":"), Ws, Lit("5"), Punct(","),
       Str("$ref"), Punct(":"), Braced("B"), Ws, Punct("}")>>}

\* the caller calls SchemaRefReplace(schema, refToFakeExternal)
CallSchemaRefReplace(schema) ==
    /\ pc = "idle"
    /\ ret' = Ret("SchemaRefReplace", NoErr, NilValidator,
                  [schema |-> schema,
                   result |-> SchemaRefReplace(schema, refToFakeExternalFunc)])
    /\ UNCHANGED <<schemas, compileLocals, failedBefore, held>>

CallerNext ==
    \/ \E name \in RootNames, in \in CallerInputs : AddSchema(name, in[1], in[2])
    \/ \E prefix \in Prefixes, filePath \in Paths : AddFile(prefix, filePath)
    \/ GetSchemas
    \/ \E schema \in ReplaceInputs : CallSchemaRefReplace(schema)
    \/ Compile
    \/ Hold
    \/ \E schemaName \in ValidateNames, instance \in Instances :
          Validate(schemaName, instance)

CallerSpec == Init /\ [][CallerNext]_vars

(***************************************************************************)
(* A caller that changes what GetSchemas() returned: the map, and the      *)
(* bytes of its values.                                                    *)
(***************************************************************************)
\* out[name][0] = ' ': a write through a slice reaches the array it shares
CallerWritesByte(name) ==
    /\ pc = "idle"
    /\ ret.op = "GetSchemas"
    /\ name \in DOMAIN ret.out
    /\ ret.out[name] # <<>>
    /\ ret' = [ret EXCEPT !.out[name][1] = Ws]
    /\ schemas' = IF name \in ret.shared
                  THEN [schemas EXCEPT ![name].source[1] = Ws]
                  ELSE schemas
    /\ UNCHANGED <<compileLocals, failedBefore, held>>

\* delete(out, name), or out[name] = a slice of the caller's own
CallerEditsMap(name) ==
    /\ pc = "idle"
    /\ ret.op = "GetSchemas"
    /\ \/ /\ name \in DOMAIN ret.out
          /\ ret' = [ret EXCEPT !.out = [n \in DOMAIN ret.out \ {name} |-> ret.out[n]],
                                !.shared = ret.shared \ {name}]
       \/ ret' = [ret EXCEPT !.out = [n \in DOMAIN ret.out \cup {name} |->
                                         IF n = name THEN <<Lit("null")>> ELSE ret.out[n]],
                             !.shared = ret.shared \ {name}]
    /\ UNCHANGED <<schemas, compileLocals, failedBefore, held>>

\* the documents this caller registers
EditorDocs == {Leaf("string", {}), Leaf("string", {"B"})}

EditorNext ==
    \/ \E name \in RootNames, d \in EditorDocs :
          AddSchema(name, "bytes", [kind |-> "object", doc |-> d])
    \/ GetSchemas
    \/ \E name \in RootNames : CallerWritesByte(name)
    \/ \E name \in RootNames : CallerEditsMap(name)
    \/ Compile

EditorSpec == Init /\ [][EditorNext]_vars

(***************************************************************************)
(* A caller that registers schemas from memory and whole directories.      *)
(***************************************************************************)
\* the documents this caller registers from memory
DirDocs == {Leaf("string", {}), Leaf("string", {"M"}), Leaf("string", {"B"})}

DirNext ==
    \/ \E name \in RootNames, d \in DirDocs :
          AddSchema(name, "bytes", [kind |-> "object", doc |-> d])
    \/ \E dir \in Dirs \cup {NoDir} : AddDir(dir)
    \/ GetSchemas
    \/ Compile

DirSpec == Init /\ [][DirNext]_vars

(***************************************************************************)
(* Properties.                                                             *)
(***************************************************************************)
\* a JSON object whose definitions, at every depth, are objects of objects
RECURSIVE WellFormed(_)
WellFormed(doc) ==
    /\ doc.defs.kind # "nonobject"
    /\ \A k \in DOMAIN doc.defs.m :
          doc.defs.m[k].obj /\ WellFormed(doc.defs.m[k].doc)

\* the names the naming rule gives a document registered as name: name itself,
\* name+K for each definition K, name+K+M for each definition M of K, ...
RECURSIVE PathNames(_, _)
PathNames(name, doc) ==
    {name} \cup UNION {PathNames(name \o k, doc.defs.m[k].doc) : k \in DOMAIN doc.defs.m}

\* every reference of every registered schema is registered
Closed(reg) == \A n \in DOMAIN reg : reg[n].requiredReferences \subseteq DOMAIN reg
\* the engine accepts every registered body
EngineAcceptsAll(reg) == \A n \in DOMAIN reg : ~EngineRejects(EngineBody(reg, n))
\* a Compile() call has returned and nothing was called since
CompileReturned == pc = "idle" /\ ret.op = "Compile"

\* C1: a successful AddSchema(P, body) whose body has definitions registers P,
\* P+K for every definition K, P+K+M for every definition M of K, and registers
\* a hoisted definition under no other name (not under the bare key).
C1_DefinitionsNamedByPath ==
    [][\A name \in RootNames, in \in Inputs :
          (/\ pc = "idle" /\ ret'.op = "AddSchema" /\ ret'.err.kind = "nil"
           /\ in[2].kind = "object" /\ in[2].doc.defs.kind = "object"
           /\ AddSchema(name, in[1], in[2]))
          => /\ PathNames(name, in[2].doc) \subseteq DOMAIN schemas'
             /\ (DOMAIN schemas' \ DOMAIN schemas) \subseteq PathNames(name, in[2].doc)]_vars

\* C2: in every state the builder can be called in, AddSchema on a name that is
\* already registered never succeeds and leaves the body GetSchemas() returns for
\* that name as first registered; given a well-formed document as bytes, string
\* or value, the error is a name collision.
C2_CollisionKeepsFirst ==
    pc = "idle" =>
        \A name \in RootNames \cap DOMAIN schemas, in \in Inputs :
            \A o \in AddSchemaOutcomes(schemas, name, in[1], in[2]) :
                /\ o.err.kind # "nil"
                /\ name \in DOMAIN o.schemas
                /\ GetSchemasResult(o.schemas)[name] = GetSchemasResult(schemas)[name]
                /\ o.schemas[name] = schemas[name]
                /\ (in[1] # "RawMessage" /\ in[2].kind = "object" /\ WellFormed(in[2].doc))
                      => o.err.kind = "collision"

\* a second registration of a registered root name was refused as a collision of
\* that name, and the entry kept is one with references
C2_Witness ==
    /\ ret.op = "AddSchema" /\ ret.err.kind = "collision" /\ ret.err.wraps = <<>>
    /\ ret.err.name \in DOMAIN schemas
    /\ schemas[ret.err.name].requiredReferences # {}

\* C3: when the engine accepts every body, Compile() succeeds exactly when every
\* required reference of every registered schema is registered, and fails with
\* the missing-references error otherwise.
C3_CompileIffClosed ==
    (CompileReturned /\ EngineAcceptsAll(schemas))
    => /\ (ret.err.kind = "nil") <=> Closed(schemas)
       /\ ~Closed(schemas) => (ret.err.kind = "missing" /\ ret.validator.nil)
       /\ Closed(schemas) => ~ret.validator.nil

\* Compile() succeeded on a registry with references
C3_Witness ==
    /\ CompileReturned /\ ret.err.kind = "nil"
    /\ \E n \in DOMAIN schemas : schemas[n].requiredReferences # {}

\* C4: the missing-references error holds the pair R(S) for every registered S
\* and every R that S requires and that is not registered.
C4_AllMissingReported ==
    (CompileReturned /\ ret.err.kind = "missing")
    => \A S \in DOMAIN schemas :
          \A R \in schemas[S].requiredReferences \ DOMAIN schemas :
              (R \o "(" \o S \o ")") \in ret.err.missing

\* the error reports references missing from two different schemas
C4_Witness ==
    /\ CompileReturned /\ ret.err.kind = "missing"
    /\ \E S1, S2 \in DOMAIN schemas :
          /\ S1 # S2
          /\ schemas[S1].requiredReferences \ DOMAIN schemas # {}
          /\ schemas[S2].requiredReferences \ DOMAIN schemas # {}

\* the work a running Compile() call has left, as a natural number: the loop
\* iterations and returns of the frames on the stack, a full frame for every
\* top-level reference not yet visited and for every name not yet marked, and a
\* full traversal for every target not yet compiled
RECURSIVE FrameWork(_)
FrameWork(st) ==
    IF st = <<>> THEN 0
    ELSE Cardinality(Head(st).left) + 1 + FrameWork(Tail(st))
MaxOut == Cardinality(UNION {schemas[n].requiredReferences : n \in DOMAIN schemas})
TraversalWork ==
    FrameWork(stack)
    + (MaxOut + 2) * (Cardinality(refsLeft)
                      + Cardinality(DOMAIN schemas \ DOMAIN schemasAdded))
    + 1
TargetBudget == (MaxOut + 2) * (Cardinality(DOMAIN schemas) + MaxOut) + 2
Measure ==
    CASE pc = "idle" -> 0
      [] pc = "targets" -> Cardinality(targetsLeft) * TargetBudget + 1
      [] pc = "refs" -> (Cardinality(targetsLeft) - 1) * TargetBudget + TraversalWork + 1

\* C5: a running Compile() call always has a next step, and every step lowers
\* the work left, a natural number: the call returns after finitely many steps,
\* whatever cycles the reference graph has.
C5_CompileTerminates ==
    /\ [](pc # "idle" => ENABLED CompileStep)
    /\ [][pc # "idle" => (Measure' \in Nat /\ Measure' < Measure)]_vars

\* Compile() returned from a registry with a cycle of three and a self-reference
C5_Witness ==
    /\ CompileReturned /\ ret.err.kind = "nil"
    /\ \E a, b, c \in DOMAIN schemas :
          /\ a # b /\ b # c /\ a # c
          /\ b \in schemas[a].requiredReferences
          /\ c \in schemas[b].requiredReferences
          /\ a \in schemas[c].requiredReferences
    /\ \E a \in DOMAIN schemas : a \in schemas[a].requiredReferences

\* C6: when a target's body is compiled, every dependency its traversal skipped
\* as a back-edge is registered in the target's loader.
C6_BackEdgesRegistered ==
    (pc = "refs" /\ stack = <<>> /\ refsLeft = {})
    => \A d \in skipped : refToFakeExternal(d) \in DOMAIN loader

\* C7: a Compile() that returns an error returns the nil Validator, and a
\* Validator it returns holds every registered name.
C7_AllOrNothing ==
    CompileReturned
    => /\ (ret.err.kind # "nil") => ret.validator = NilValidator
       /\ ~ret.validator.nil => DOMAIN ret.validator.schemas = DOMAIN schemas

\* the engine rejected one schema of a registry that holds others it accepts
C7_Witness ==
    /\ CompileReturned /\ ret.err.kind \in {"load", "compile"}
    /\ \E n \in DOMAIN schemas :
          /\ ~EngineRejects(EngineBody(schemas, n))
          /\ schemas[n].requiredReferences = {}

\* C8: no step of Compile(), failing or succeeding, changes the registry.
C8_CompileKeepsRegistry ==
    [][(pc # "idle" \/ pc' # "idle" \/ ret'.op = "Compile") => schemas' = schemas]_vars

\* Compile() returned on a registry that is not empty
C8_Witness == CompileReturned /\ schemas # EmptyMap

\* C9: after a Compile() of this builder failed for missing references, a
\* Compile() on the registry once it is closed succeeds (the engine accepting
\* every body) and returns a Validator for every registered name.
C9_RetryAfterMissing ==
    (CompileReturned /\ failedBefore /\ Closed(schemas) /\ EngineAcceptsAll(schemas))
    => /\ ret.err.kind = "nil"
       /\ ~ret.validator.nil
       /\ DOMAIN ret.validator.schemas = DOMAIN schemas

\* a Compile() succeeded on a builder whose earlier Compile() had failed
C9_Witness ==
    /\ CompileReturned /\ failedBefore /\ ret.err.kind = "nil"
    /\ \E n \in DOMAIN schemas : schemas[n].requiredReferences # {}

\* C10: no step removes a registered entry or changes its body or its
\* requiredReferences.
C10_EntriesImmutable ==
    [][\A n \in DOMAIN schemas :
          n \in DOMAIN schemas' /\ schemas'[n] = schemas[n]]_vars

\* a call on a registry with entries added another entry
C10_Witness ==
    /\ ret.op = "AddSchema" /\ ret.err.kind = "nil"
    /\ Cardinality(DOMAIN schemas) >= 3

\* the object b holds the key at its top level
DepthBefore(b, i) ==
    Cardinality({j \in 1..(i - 1) : b[j] = Punct("{")})
    - Cardinality({j \in 1..(i - 1) : b[j] = Punct("}")})
HasTopLevelKey(b, key) ==
    \E j \in 1..(Len(b) - 1) :
        b[j] = Str(key) /\ b[j + 1] = Punct(":") /\ DepthBefore(b, j) = 1
\* the names a body holds in brace form, and the synthetic locators it holds
BracedNames(b) == {b[i].v : i \in {j \in 1..Len(b) : b[j].k = "braced"}}
LocatorStrings == {refToFakeExternal(n) : n \in RefNames \cup RootNames \cup DefKeys}
Locators(b) ==
    {b[i].v : i \in {j \in 1..Len(b) : b[j].k = "str" /\ b[j].v \in LocatorStrings}}

\* C11: in every state, every body GetSchemas() returns has no top-level
\* `definitions` key, holds each of its symbolic references in the brace form
\* {Name} and holds no synthetic locator; a successful AddSchema stores under the
\* given name a body with exactly the braced names of the document it was given
\* (every reachable registry is the registry of a state GetSchemas() returned in).
C11_BodiesAsWritten ==
    /\ \A n \in DOMAIN schemas :
          LET b == GetSchemasResult(schemas)[n]
          IN /\ ~HasTopLevelKey(b, "definitions")
             /\ schemas[n].requiredReferences \subseteq BracedNames(b)
             /\ Locators(b) = {}
    /\ ret.op = "GetSchemas" => ret.out = GetSchemasResult(schemas)
    /\ ret.op = "GetSchemas" =>
          \A name \in RootNames, in \in Inputs :
              \A o \in AddSchemaOutcomes(schemas, name, in[1], in[2]) :
                  (o.err.kind = "nil" /\ in[2].kind = "object")
                  => BracedNames(GetSchemasResult(o.schemas)[name])
                        = in[2].doc.refs \ CanonicalRefs

\* Compile() succeeded, handing the engine rewritten bodies, on a registry that
\* holds a hoisted definition and a schema whose body refers to it in brace form
C11_Witness ==
    /\ CompileReturned /\ ret.err.kind = "nil"
    /\ "K" \in DOMAIN schemas
    /\ \E n \in DOMAIN schemas :
          /\ "K" \in BracedNames(GetSchemasResult(schemas)[n])
          /\ Locators(ret.validator.schemas[n].body) # {}

\* C12: no change the caller makes to the map GetSchemas() returned (adding,
\* deleting or replacing keys) or to the bytes of its values changes the registry.
C12_GetSchemasReturnsCopies ==
    [][(ret.op = "GetSchemas" /\ ret'.op = "GetSchemas" /\ ret'.out # ret.out)
       => schemas' = schemas]_vars

\* C13: Validate with a name the Validator's compiled map lacks returns the
\* unknown-schema error for that name and a nil result, without calling the
\* engine and without dereferencing a nil schema.
C13_UnknownSchema ==
    /\ (pc = "idle" /\ ~held.nil) =>
          \A name \in ValidateNames \ DOMAIN held.schemas, instance \in Instances :
              LET o == ValidateOutcome(held, name, instance)
              IN /\ o.err.kind = "unknown" /\ o.err.name = name
                 /\ o.result = NilResult
                 /\ ~o.engine /\ ~o.crash
    /\ (ret.op = "Validate" /\ ret.err.kind = "unknown") =>
          /\ ret.err.name \notin DOMAIN held.schemas
          /\ ret.out.result = NilResult
          /\ ~ret.out.engine /\ ~ret.out.crash

\* Validate was refused for a name registered after the Validator was compiled
C13_Witness ==
    /\ ret.op = "Validate" /\ ret.err.kind = "unknown"
    /\ ret.err.name \in DOMAIN schemas
    /\ ret.err.name \notin DOMAIN held.schemas

\* C14: the Validator of a successful Compile() holds exactly the names of the
\* registry, hoisted definitions included, and its Validate refuses a name as
\* unknown iff the name is not registered.
C14_ValidatorNamesAreRegistryNames ==
    (CompileReturned /\ ret.err.kind = "nil")
    => /\ ~ret.validator.nil
       /\ DOMAIN ret.validator.schemas = DOMAIN schemas
       /\ \A name \in ValidateNames \cup DOMAIN schemas, instance \in Instances :
             (ValidateOutcome(ret.validator, name, instance).err.kind # "unknown")
             <=> name \in DOMAIN schemas

\* the Validator holds a root schema and the definition hoisted from it
C14_Witness ==
    /\ CompileReturned /\ ret.err.kind = "nil"
    /\ {"A", "K"} \subseteq DOMAIN ret.validator.schemas
    /\ "K" \in schemas["A"].requiredReferences
    /\ ValidateOutcome(ret.validator, "K", "conforming").result.valid

\* C15: no step changes a Validator the caller holds, whether it registers more
\* schemas or compiles again, and the Validator a Compile() returns holds the
\* compiled body of every name registered at that time.
C15_ValidatorsIndependent ==
    /\ [][~held.nil => held' = held]_vars
    /\ [](CompileReturned /\ ~ret.validator.nil
          => \A n \in DOMAIN schemas :
                /\ n \in DOMAIN ret.validator.schemas
                /\ ret.validator.schemas[n].body = EngineBody(schemas, n))

\* a second Compile() returned a Validator with more names than the one kept
C15_Witness ==
    /\ ~held.nil
    /\ CompileReturned /\ ~ret.validator.nil
    /\ DOMAIN held.schemas # DOMAIN ret.validator.schemas
    /\ DOMAIN held.schemas \subseteq DOMAIN ret.validator.schemas

\* C16: AddSchema with a text that is no JSON object (no JSON at all, a string,
\* an array, a number, null) returns the format error of the parse and leaves the
\* registry unchanged.
C16_NonObjectRejected ==
    pc = "idle" =>
        \A name \in RootNames, in \in CallerInputs :
            in[2].kind # "object" =>
                \A o \in AddSchemaOutcomes(schemas, name, in[1], in[2]) :
                    o.err.kind = "unmarshal" /\ o.schemas = schemas

\* the definition keys of a document, at every depth, and those among them
\* whose value is not an object
RECURSIVE DefKeysOf(_)
DefKeysOf(doc) ==
    DOMAIN doc.defs.m
    \cup UNION {DefKeysOf(doc.defs.m[k].doc) : k \in {x \in DOMAIN doc.defs.m : doc.defs.m[x].obj}}
RECURSIVE BadKeys(_)
BadKeys(doc) ==
    {k \in DOMAIN doc.defs.m : ~doc.defs.m[k].obj}
    \cup UNION {BadKeys(doc.defs.m[k].doc) : k \in {x \in DOMAIN doc.defs.m : doc.defs.m[x].obj}}
FormatErrors == {"definitions", "definition"}
\* the documents of the caller with a malformed `definitions` at some depth
Malformed == {d \in CallerDocs : ~WellFormed(d)}

CanonicalAt(b) == {i \in 1..Len(b) : b[i].k = "str" /\ b[i].v \in CanonicalRefs}

\* C18: a `$ref` whose value has no braces is never among the
\* requiredReferences, at registration or later, is never reported missing, and
\* is handed to the engine and returned by SchemaRefReplace as it was written.
C18_CanonicalRefsIgnored ==
    /\ \A n \in DOMAIN schemas :
          /\ schemas[n].requiredReferences \cap CanonicalRefs = {}
          /\ \A i \in CanonicalAt(schemas[n].source) :
                EngineBody(schemas, n)[i] = schemas[n].source[i]
    /\ (CompileReturned /\ ret.err.kind = "missing") =>
          \A c \in CanonicalRefs, S \in DOMAIN schemas :
              (c \o "(" \o S \o ")") \notin ret.err.missing
    /\ (ret.op = "SchemaRefReplace" /\ BracedNames(ret.out.schema) = {}) =>
          ret.out.result = ret.out.schema
    /\ pc = "idle" =>
          \A name \in RootNames, d \in CallerDocs :
              \A o \in AddSchemaOutcomes(schemas, name, "bytes",
                                         [kind |-> "object", doc |-> d]) :
                  o.err.kind = "nil"
                  => o.schemas[name].requiredReferences = d.refs \ CanonicalRefs

\* Compile() succeeded, and handed the engine a canonical reference unchanged,
\* on a registry where nothing is registered under the canonical value
C18_Witness ==
    /\ CompileReturned /\ ret.err.kind = "nil"
    /\ CanonicalRefs \cap DOMAIN schemas = {}
    /\ \E n \in DOMAIN schemas :
          /\ CanonicalAt(schemas[n].source) # {}
          /\ schemas[n].requiredReferences # {}
          /\ CanonicalAt(ret.validator.schemas[n].body) = CanonicalAt(schemas[n].source)

\* the bytes of b with the braced name of every symbolic reference replaced by
\* the locator of the name, and every other byte as it is in b
OnlyNamesReplaced(b) ==
    [i \in 1..Len(b) |->
        IF \E j \in 1..Len(b) : MatchEnd(b, j) = i
        THEN Str(refToFakeExternal(b[i].v))
        ELSE b[i]]

\* C19: SchemaRefReplace(bytes, f) replaces the braced name of every symbolic
\* reference with f(name) and leaves every other byte as it was, the white space
\* around the colon of a `$ref` member included.
C19_OtherBytesIdentical ==
    ret.op = "SchemaRefReplace" => ret.out.result = OnlyNamesReplaced(ret.out.schema)

\* the paths of the caller: whether the extension is .json, and the base name
\* without it
PathTable ==
    {[path |-> <<"A", ".json">>, json |-> TRUE, stem |-> "A"],
     [path |-> <<"d", "/", "B", ".json">>, json |-> TRUE, stem |-> "B"],
     [path |-> <<"M", ".json">>, json |-> TRUE, stem |-> "M"],
     [path |-> <<"A", ".txt">>, json |-> FALSE, stem |-> ""],
     [path |-> <<"A", ".JSON">>, json |-> FALSE, stem |-> ""],
     [path |-> <<"d", "/", "A">>, json |-> FALSE, stem |-> ""]}

\* C20: AddFile(prefix, path) of a readable file X.json registers the file's
\* root schema under prefix+X, and under no other name, unless that name is
\* taken; a path whose extension is not .json is refused with an error and the
\* registry is left as it was.
C20_AddFileNamesByBase ==
    /\ Paths = {t.path : t \in PathTable}
    /\ pc = "idle" =>
          \A prefix \in Prefixes, t \in PathTable :
              \A o \in AddFileOutcomes(schemas, prefix, t.path) :
                  /\ ~t.json => (o.err.kind = "ext" /\ o.schemas = schemas)
                  /\ (t.json /\ o.err.kind = "nil") =>
                        /\ (prefix \o t.stem) \notin DOMAIN schemas
                        /\ DOMAIN o.schemas = DOMAIN schemas \cup {prefix \o t.stem}
                        /\ o.schemas[prefix \o t.stem].source = Marshal(Files[t.path].doc)
                  /\ (t.json /\ t.path \in DOMAIN Files
                      /\ (prefix \o t.stem) \notin DOMAIN schemas) => o.err.kind = "nil"
    /\ (ret.op = "AddFile" /\ ret.err.kind = "nil") =>
          \E prefix \in Prefixes, t \in PathTable : (prefix \o t.stem) \in DOMAIN schemas

\* AddFile("P", "d/B.json") registered PB, and a path without the .json
\* extension was refused on a registry that holds PB
C20_Witness ==
    /\ ret.op = "AddFile" /\ ret.err.kind = "ext"
    /\ "PB" \in DOMAIN schemas
    /\ "B" \notin DOMAIN schemas

(***************************************************************************)
(* C24: within the traversal of one target, loader.AddSchema is called at  *)
(* most once for each name: every locator of the target's loader has been  *)
(* loaded exactly once, also when the name is reached over several paths.  *)
(***************************************************************************)
C24_RegisteredAtMostOnce ==
    \A l \in DOMAIN loader : loader[l].times = 1

\* a finished frame of a name that is already in the loader: the second visit
C24_Witness ==
    /\ pc = "refs" /\ stack # <<>>
    /\ stack[Len(stack)].left = {}
    /\ Added(stack[Len(stack)].name)
    /\ Loaded(refToFakeExternal(stack[Len(stack)].name)) = 1

(***************************************************************************)
(* C21: AddDir(dir) registers the .json files located directly in dir and  *)
(* no file located in a subdirectory of dir: every name a returning        *)
(* AddDir(dir) call adds to the registry is the base name, without         *)
(* ".json", of a file that is an entry of dir itself.                      *)
(***************************************************************************)
\* path is an entry of dir itself
DirectlyIn(dir, path) ==
    /\ Below(dir, path)
    /\ \A i \in (Len(dir) + 2)..Len(path) : path[i] # Separator

C21_AddDirNotRecursive ==
    [][(ret'.op = "AddDir" /\ ~ret'.out.crash) =>
          DOMAIN schemas' \ DOMAIN schemas \subseteq
             {TrimJson(Base(p)) : p \in {q \in DOMAIN Files :
                                           DirectlyIn(ret'.out.dir, q) /\ Ext(q) = ".json"}}]_vars

(***************************************************************************)
(* C22: the completeness check precedes all compilation work.  A Compile() *)
(* call on a registry with a missing reference returns the missing-        *)
(* references error in its first step, with no loader, no schema in a      *)
(* loader and nothing compiled; the loop over the targets runs only on a   *)
(* registry without missing references.                                    *)
(***************************************************************************)
C22_CheckBeforeWork ==
    /\ [](pc # "idle" => Closed(schemas))
    /\ [][(pc = "idle" /\ ~Closed(schemas) /\ (ret'.op = "Compile" \/ pc' # "idle")) =>
            /\ pc' = "idle"
            /\ ret'.err.kind = "missing" /\ ret'.validator.nil
            /\ loader' = EmptyMap /\ schemasAdded' = EmptyMap /\ compiled' = EmptyMap]_vars

\* the error was returned although a registered schema without references,
\* which the engine accepts, could have been compiled
C22_Witness ==
    /\ CompileReturned /\ ret.err.kind = "missing"
    /\ loader = EmptyMap /\ compiled = EmptyMap
    /\ \E n \in DOMAIN schemas :
          /\ schemas[n].requiredReferences = {}
          /\ ~EngineRejects(EngineBody(schemas, n))

(***************************************************************************)
(* C23: within the traversal of one target a dependency D is registered in *)
(* the loader only after each of its required references is registered,    *)
(* except the references that were back-edges when D was expanded: the     *)
(* names on the current path of the traversal and the target itself.       *)
(***************************************************************************)
\* the names of the frames of the running traversal, the expanded one included
OnPath == {stack[i].name : i \in 1..Len(stack)}

C23_ReferencesRegisteredFirst ==
    [][(pc = "refs" /\ pc' = "refs" /\ stack # <<>> /\ loader' # loader) =>
          \A r \in schemas[stack[Len(stack)].name].requiredReferences :
             \/ refToFakeExternal(r) \in DOMAIN loader
             \/ r \in OnPath
             \/ r = target]_vars

\* D is about to be registered and one of its references, no back-edge, is
\* in the loader already
C23_Witness ==
    /\ pc = "refs" /\ stack # <<>>
    /\ stack[Len(stack)].left = {}
    /\ ~Added(stack[Len(stack)].name)
    /\ ~EngineRejects(EngineBody(schemas, stack[Len(stack)].name))
    /\ \E r \in schemas[stack[Len(stack)].name].requiredReferences :
          /\ r # target /\ r \notin OnPath
          /\ refToFakeExternal(r) \in DOMAIN loader

(***************************************************************************)
(* C25: the closure is minimal.  A schema is registered into the loader of *)
(* target T only if it is reachable from T over requiredReferences, in one *)
(* or more steps; this holds while T is traversed and for the loader T was *)
(* compiled with.                                                          *)
(***************************************************************************)
\* the names in S and the names they reach over requiredReferences
RECURSIVE ReachClosure(_, _)
ReachClosure(reg, S) ==
    LET more == S \cup UNION {reg[n].requiredReferences : n \in S \cap DOMAIN reg}
    IN IF more = S THEN S ELSE ReachClosure(reg, more)

\* the names reachable from T in one or more steps
ReachableFrom(reg, T) == ReachClosure(reg, reg[T].requiredReferences)

C25_OnlyReachableRegistered ==
    /\ pc = "refs" =>
          DOMAIN loader \subseteq
             {refToFakeExternal(n) : n \in ReachableFrom(schemas, target)}
    /\ \A T \in DOMAIN compiled :
          compiled[T].pool \subseteq {refToFakeExternal(n) : n \in ReachableFrom(schemas, T)}

\* the references of the target are registered, and the registry holds a
\* schema the target does not reach
C25_Witness ==
    /\ pc = "refs" /\ stack = <<>> /\ refsLeft = {}
    /\ loader # EmptyMap
    /\ \E n \in DOMAIN schemas :
          n # target /\ n \notin ReachableFrom(schemas, target)

C27_FreshLoaderPerTarget ==
    [][(pc = "targets" /\ pc' = "refs") =>
          /\ loader' = EmptyMap
          /\ DOMAIN schemasAdded' = {target'}
          /\ ~schemasAdded'[target']]_vars

\* a target starts with nothing registered although a target before it was
\* compiled with a schema this target requires too
C27_Witness ==
    /\ pc = "refs" /\ stack = <<>>
    /\ loader = EmptyMap /\ DOMAIN schemasAdded = {target}
    /\ refsLeft = schemas[target].requiredReferences
    /\ \E T \in DOMAIN compiled, n \in refsLeft :
          T # target /\ refToFakeExternal(n) \in compiled[T].pool

(***************************************************************************)
(* C28: in the traversal of one target the status of a name only moves     *)
(* Unvisited -> InProgress -> Done, one stage at a time; the traversal     *)
(* starts on the references of a dependency only when the dependency is    *)
(* Unvisited and marks it InProgress before it starts, so the reference    *)
(* set of a dependency is expanded at most once per target.                *)
(***************************************************************************)
\* 0 Unvisited: no key; 1 InProgress: marked false; 2 Done: marked true
Status(added, n) == IF n \notin DOMAIN added THEN 0 ELSE IF added[n] THEN 2 ELSE 1

C28_TriStateTraversal ==
    [][(pc = "refs" /\ pc' = "refs") =>
          /\ \A n \in DOMAIN schemas :
                /\ Status(schemasAdded', n) >= Status(schemasAdded, n)
                /\ Status(schemasAdded', n) <= Status(schemasAdded, n) + 1
          /\ Len(stack') > Len(stack) =>
                /\ Status(schemasAdded, stack'[Len(stack')].name) = 0
                /\ Status(schemasAdded', stack'[Len(stack')].name) = 1]_vars

(***************************************************************************)
(* C29: when the engine rejects a schema during Compile(), while a         *)
(* dependency is registered into a loader or while a target is compiled,   *)
(* the call returns in that step with an error that names the rejected     *)
(* schema and with no Validator, and no further target is compiled; an     *)
(* engine error Compile() returns names a schema the engine rejects.       *)
(***************************************************************************)
\* the traversal is about to hand the engine a dependency it rejects
RejectedDependency ==
    /\ pc = "refs" /\ stack # <<>>
    /\ stack[Len(stack)].left = {}
    /\ ~Added(stack[Len(stack)].name)
    /\ EngineRejects(EngineBody(schemas, stack[Len(stack)].name))

\* the loop is about to hand the engine a target it rejects
RejectedTarget ==
    /\ pc = "refs" /\ stack = <<>> /\ refsLeft = {}
    /\ EngineRejects(EngineBody(schemas, target))

C29_EngineRejectionAborts ==
    /\ [](CompileReturned /\ ret.err.kind \in {"load", "compile"} =>
             /\ ret.err.name \in DOMAIN schemas
             /\ EngineRejects(EngineBody(schemas, ret.err.name))
             /\ ret.err.wraps = <<ret.err.name>>
             /\ ret.validator = NilValidator)
    /\ [][(RejectedDependency =>
               /\ pc' = "idle" /\ ret'.op = "Compile"
               /\ ret'.err.kind = "load" /\ ret'.err.name = stack[Len(stack)].name
               /\ compiled' = EmptyMap)
           /\
           (RejectedTarget =>
               /\ pc' = "idle" /\ ret'.op = "Compile"
               /\ ret'.err.kind = "compile" /\ ret'.err.name = target
               /\ compiled' = EmptyMap)]_vars

\* the engine rejected a dependency, and the error names it and not the
\* schema that requires it, which the engine accepts
C29_Witness ==
    /\ CompileReturned /\ ret.err.kind = "load"
    /\ \E n \in DOMAIN schemas :
          /\ n # ret.err.name
          /\ ret.err.name \in schemas[n].requiredReferences
          /\ ~EngineRejects(EngineBody(schemas, n))

(***************************************************************************)
(* C30: in every state the requiredReferences of an entry are exactly the  *)
(* names of the symbolic references in the entry's stored body.  A         *)
(* successful AddSchema gives the entry of the given name the references   *)
(* written outside `definitions` and the entry of a hoisted definition the *)
(* references written in that definition (every reachable registry is the *)
(* registry of a state GetSchemas() returned in).                          *)
(***************************************************************************)
\* the names n of the members "$ref":"{n}" of a stored body
SymbolicRefs(b) ==
    {b[j + 2].v : j \in {i \in 1..(Len(b) - 2) :
                             /\ b[i] = Str("$ref") /\ b[i + 1] = Punct(":")
                             /\ b[i + 2].k = "braced"}}

C30_ReferencesOfStoredBody ==
    /\ \A n \in DOMAIN schemas :
          schemas[n].requiredReferences = SymbolicRefs(schemas[n].source)
    /\ ret.op = "GetSchemas" =>
          \A name \in RootNames, in \in Inputs :
              \A o \in AddSchemaOutcomes(schemas, name, in[1], in[2]) :
                  (o.err.kind = "nil" /\ in[2].kind = "object")
                  => /\ o.schemas[name].requiredReferences
                           = in[2].doc.refs \ CanonicalRefs
                     /\ \A k \in DOMAIN in[2].doc.defs.m :
                           o.schemas[DefName(name, k)].requiredReferences
                              = in[2].doc.defs.m[k].doc.refs \ CanonicalRefs

\* a document and its definition refer to each other, and each entry holds its
\* own reference only
C30_Witness ==
    /\ "A" \in DOMAIN schemas /\ "K" \in DOMAIN schemas
    /\ schemas["A"].requiredReferences = {"K"}
    /\ schemas["K"].requiredReferences = {"A"}

(***************************************************************************)
(* C31: every failure is determined by the inputs.  A failing AddSchema on *)
(* a registry returns one error and leaves one registry, whatever the      *)
(* order in which the `definitions` map is visited (every reachable        *)
(* registry is the registry of a state GetSchemas() returned in).  A       *)
(* failing Compile() names one schema: when it names a schema the engine   *)
(* rejects, the registry holds no other rejected schema without required   *)
(* references, which the loop over the targets would name instead when it  *)
(* visits it first.                                                        *)
(***************************************************************************)
C31_FailuresDeterministic ==
    /\ ret.op = "GetSchemas" =>
          \A name \in RootNames, in \in Inputs :
              \A o1, o2 \in AddSchemaOutcomes(schemas, name, in[1], in[2]) :
                  o1.err.kind # "nil" => o1 = o2
    /\ (CompileReturned /\ ret.err.kind \in {"load", "compile"}) =>
          \A n \in DOMAIN schemas :
              (schemas[n].requiredReferences = {} /\ EngineRejects(EngineBody(schemas, n)))
              => n = ret.err.name

(***************************************************************************)
(* C32: AddSchema is atomic on failure.  Whenever AddSchema returns an     *)
(* error the registry holds exactly the entries it held before the call;   *)
(* no definition of the rejected document stays registered.                *)
(***************************************************************************)
C32_AddSchemaAtomicOnFailure ==
    [][(pc = "idle" /\ ret'.op = "AddSchema" /\ ret'.err.kind # "nil")
          => schemas' = schemas]_vars

(***************************************************************************)
(* C33: Validate never changes state.  A Validate call, with a known or an *)
(* unknown name, leaves the compiled map of the Validator and the registry *)
(* of the builder as they were, and every Validate call gives after it the *)
(* outcome it would have given before it.                                  *)
(***************************************************************************)
C33_ValidateChangesNothing ==
    [][ret'.op = "Validate" =>
          /\ held' = held
          /\ schemas' = schemas
          /\ compileLocals' = compileLocals
          /\ \A n \in ValidateNames, i \in Instances :
                ValidateOutcome(held', n, i) = ValidateOutcome(held, n, i)]_vars

\* the instance was found violating, and the Validator still accepts a
\* conforming instance under the same name and refuses an unknown name
C33_Witness ==
    /\ ret.op = "Validate" /\ ret.out.engine /\ ~ret.out.result.valid
    /\ \E n \in DOMAIN held.schemas, u \in ValidateNames \ DOMAIN held.schemas :
          /\ ValidateOutcome(held, n, "conforming").result.valid
          /\ ValidateOutcome(held, u, "conforming").err.kind = "unknown"

(***************************************************************************)
(* C34: AddSchema treats the same JSON object text alike in every form     *)
(* that carries it.  On every registry, the call with the text as          *)
(* json.RawMessage, as []byte, as string or as a Go value that marshals to *)
(* the text has the same outcomes: the same error and the same entries     *)
(* (every reachable registry is the registry of a state GetSchemas()       *)
(* returned in).                                                           *)
(***************************************************************************)
C34_FormsAlike ==
    ret.op = "GetSchemas" =>
        \A name \in RootNames, j \in JsonInputs, f1, f2 \in Forms :
            j.kind = "object" =>
                AddSchemaOutcomes(schemas, name, f1, j) = AddSchemaOutcomes(schemas, name, f2, j)

(***************************************************************************)
(* C35: the synthetic locator is injective and complete.  The locator of a *)
(* name is the fixed prefix followed by the name, distinct names have      *)
(* distinct locators, so the loader holds one address for each schema      *)
(* registered into it; and a body rewritten with the locator function,     *)
(* for the engine or on a call of SchemaRefReplace, holds no `$ref` member *)
(* whose value is in brace form.                                           *)
(***************************************************************************)
\* every name of the model
AllNames == RootNames \cup DefKeys \cup RefNames \cup ValidateNames

\* the positions of the `$ref` members of b whose value is a braced string,
\* white space around the colon allowed
RemainingRefs(b) ==
    {i \in 1..Len(b) :
        /\ b[i] = Str("$ref")
        /\ \E c \in (i + 1)..Len(b), e \in (i + 2)..Len(b) :
              /\ c < e
              /\ b[c] = Punct(":") /\ b[e].k = "braced"
              /\ \A w \in ((i + 1)..(e - 1)) \ {c} : b[w] = Ws}

C35_LocatorInjectiveComplete ==
    /\ \A n1, n2 \in AllNames :
          /\ refToFakeExternal(n1) = "file://--jsonschema--/" \o n1
          /\ n1 # n2 => refToFakeExternal(n1) # refToFakeExternal(n2)
    /\ Cardinality(DOMAIN loader) =
          Cardinality({n \in DOMAIN schemasAdded : schemasAdded[n]})
    /\ \A n \in DOMAIN schemas : RemainingRefs(EngineBody(schemas, n)) = {}
    /\ \A l \in DOMAIN loader : RemainingRefs(loader[l].body) = {}
    /\ ret.op = "SchemaRefReplace" => RemainingRefs(ret.out.result) = {}

\* a loader with two schemas, one of them with a rewritten reference
C35_Witness ==
    /\ pc = "refs"
    /\ Cardinality(DOMAIN loader) >= 2
    /\ \E l \in DOMAIN loader, n \in DOMAIN schemas :
          /\ l = refToFakeExternal(n)
          /\ schemas[n].requiredReferences # {}
          /\ RemainingRefs(schemas[n].source) # {}
          /\ loader[l].body # schemas[n].source
====
